---- MODULE Spec2Model ----
(***************************************************************************)
(* Provider-abstraction and streaming-response layer of AuditAI.           *)
(*                                                                         *)
(* The repository carries two variants of the service module:              *)
(*   "sdk"   - src/services/geminiService.ts (Gemini through the SDK)       *)
(*   "fetch" - src/unnamed/part_000          (Gemini through direct fetch)  *)
(* Both share callOpenAICompatible / getProviderConfig.  The variant and   *)
(* the environment secrets are fixed at module load (Init); one            *)
(* orchestrator call at a time is followed from Idle to its end.           *)
(*                                                                         *)
(* Text is a sequence of atoms.  An atom is one character, except for a    *)
(* few literals that the code only ever handles whole ("data: ",           *)
(* "[DONE]", the markdown code fences, fixed messages).                    *)
(***************************************************************************)
EXTENDS Integers, Sequences, FiniteSets, TLC

VARIABLES
    variant,     \* which service module is loaded: "sdk" or "fetch"
    env,         \* process.env secrets: provider -> "" or a key
    pc,          \* position of the call
    op,          \* operation invoked
    provider,    \* provider argument
    sink,        \* TRUE iff onChunk was supplied
    fileOk,      \* FileReader succeeds on the supplied file
    target,      \* provider the request was sent to ("none" before)
    model,       \* model name put in the request ("none" before)
    streaming,   \* the request asks for a streamed answer
    config,      \* the OpenAIConfig object this call holds, as the call left it
    requests,    \* outbound network requests issued by this call
    decoder,     \* stream decoder in use: "sse", "brace", "sdk", "none"
    frames,      \* frames the server puts on the wire (history variable)
    wire,        \* what the transport has not delivered yet
    status,      \* HTTP status of the response (0 before it arrives)
    body,        \* body of a non-streaming or error response
    buffer,      \* brace decoder: cumulative buffer
    acc,         \* accumulatedText
    sinkLog,     \* arguments of the onChunk invocations, in order
    decoded,     \* deltas appended to acc, in order (history variable)
    wholeLines,  \* every chunk so far ended at a line end (history variable)
    reads,       \* chunks delivered so far: 0, 1, or 2 for more (history variable)
    failure,     \* failure raised inside the call ("none" if none)
    failedAt,    \* pc at which the failure was raised
    sinkAtFail,  \* sinkLog at the moment the failure was raised
    result,      \* what the caller gets: [kind, text, err]
    vlSent,      \* an earlier call sent model qwen-vl-max (history variable)
    calls,       \* two streaming calls in flight together: call -> its locals
    chat,        \* one sendChatMessage call seen from its arguments to its request
    heap,        \* the arrays of that call: "caller" is the history argument
    twice,       \* analyzeFinancialData called twice with the same arguments
    app,         \* useState of App: session, isLoginModalOpen, currentView, chat
    closure,     \* the App state the last render handed to the handlers
    imageView,   \* useState of ImageView: selectedFile, status, analysisText
    auditView,   \* useState of AuditView: inputText, status, result
    pending,     \* the service calls the views are awaiting
    clock        \* Date.now(): the id given to the next message or call

\* the state of the one call followed step by step
coreVars == << variant, env, pc, op, provider, sink, fileOk, target, model,
               streaming, config, requests, decoder, frames, wire, status, body,
               buffer, acc, sinkLog, decoded, wholeLines, reads, failure, failedAt,
               sinkAtFail, result, vlSent >>

\* the state of the other views of the program
pairVars == << calls >>
chatVars == << chat, heap >>
twiceVars == << twice >>
uiVars == << app, closure, imageView, auditView, pending, clock >>

others == << pairVars, chatVars, twiceVars, uiVars >>

vars == << coreVars, others >>

\* ------------------------------------------------------------------ bounds
MaxFrames == 2
MaxHistory == 2
MaxCalls == 3

\* --------------------------------------------------------------- constants
Providers == {"gemini", "deepseek", "gpt", "qwen"}
Ops       == {"analyzeFinancialData", "analyzeReceiptImage", "sendChatMessage"}
Variants  == {"sdk", "fetch"}
KeyValues == {"", "k"}

\* Environments explored.  An operation reads the secret of the provider it
\* is given and the Gemini secret, never two OpenAI-compatible secrets, so
\* the three OpenAI-compatible secrets are set or unset together.
Envs == { e \in [Providers -> KeyValues] : e["deepseek"] = e["gpt"] /\ e["gpt"] = e["qwen"] }

Q      == "\""
NL     == "\n"
Marker == "data: "
Done   == "[DONE]"
Fence  == "<fence-json>"   \* the three backquotes followed by json
Ticks  == "<fence>"        \* three backquotes
Whitespace == {" ", "\t", NL}

\* ------------------------------------------------------------ text helpers
RECURSIVE Concat(_)
Concat(ss) == IF ss = << >> THEN << >> ELSE Head(ss) \o Concat(Tail(ss))

IsPrefix(s, t) == Len(s) <= Len(t) /\ SubSeq(t, 1, Len(s)) = s

\* String.prototype.split("\n")
RECURSIVE SplitLines(_, _)
SplitLines(cur, s) ==
    IF s = << >> THEN << cur >>
    ELSE IF Head(s) = NL THEN << cur >> \o SplitLines(<< >>, Tail(s))
    ELSE SplitLines(Append(cur, Head(s)), Tail(s))

\* String.prototype.trim()
RECURSIVE TrimLeft(_)
TrimLeft(s) == IF s # << >> /\ Head(s) \in Whitespace THEN TrimLeft(Tail(s)) ELSE s

RECURSIVE TrimRight(_)
TrimRight(s) ==
    IF s # << >> /\ s[Len(s)] \in Whitespace THEN TrimRight(SubSeq(s, 1, Len(s) - 1)) ELSE s

Trim(s) == TrimRight(TrimLeft(s))

StartsWithMarker(s) == s # << >> /\ Head(s) = Marker

\* String.prototype.replace("data: ", ""): the first occurrence only
RECURSIVE RemoveFirstMarker(_)
RemoveFirstMarker(s) ==
    IF s = << >> THEN << >>
    ELSE IF Head(s) = Marker THEN Tail(s)
    ELSE << Head(s) >> \o RemoveFirstMarker(Tail(s))

\* JSON.parse followed by the optional-chained path to the text field.
\* JSON is reduced to  Value ::= String | "{" [Value] "}",  String ::= Q c* Q
\* (keys and arrays dropped, nesting and string quoting kept).  text is the
\* innermost string of a nested object, << >> when there is none.
RECURSIVE LeadingOpens(_)
LeadingOpens(s) == IF s # << >> /\ Head(s) = "{" THEN 1 + LeadingOpens(Tail(s)) ELSE 0

IsJSONString(s) ==
    /\ Len(s) >= 2
    /\ s[1] = Q
    /\ s[Len(s)] = Q
    /\ \A i \in 2..(Len(s) - 1) : s[i] # Q

ParseJSON(s) ==
    LET k   == LeadingOpens(s)
        mid == SubSeq(s, k + 1, Len(s) - k)
        ok  == /\ Len(s) >= 2 * k
               /\ \A i \in (Len(s) - k + 1)..Len(s) : s[i] = "}"
               /\ \/ k >= 1 /\ mid = << >>
                  \/ IsJSONString(mid)
    IN  [ok   |-> ok,
         text |-> IF ok /\ k >= 1 /\ mid # << >> THEN SubSeq(mid, 2, Len(mid) - 1) ELSE << >>]

\* markdown fence removal: resultText.replace(/```json\n?|\n?```/g, '')
RECURSIVE CleanText(_)
CleanText(s) ==
    IF s = << >> THEN << >>
    ELSE IF Head(s) = Fence
         THEN IF Len(s) >= 2 /\ s[2] = NL THEN CleanText(SubSeq(s, 3, Len(s)))
              ELSE CleanText(Tail(s))
    ELSE IF Head(s) = NL /\ Len(s) >= 2 /\ s[2] = Ticks THEN CleanText(SubSeq(s, 3, Len(s)))
    ELSE IF Head(s) = NL /\ Len(s) >= 2 /\ s[2] = Fence
         THEN << "json" >> \o CleanText(SubSeq(s, 3, Len(s)))
    ELSE IF Head(s) = Ticks THEN CleanText(Tail(s))
    ELSE << Head(s) >> \o CleanText(Tail(s))

\* ------------------------------------------------------- stream decoders
\* Decoder state of one streaming call: accumulatedText, the onChunk calls
\* made, the deltas appended, and whether an exception left the read loop.
AppendDeltaOverwrite(accumulated, delta) == delta

\* accumulatedText += delta
AppendDelta(accumulated, delta) == accumulated \o delta

SinkArgDelta(accumulated, delta) == delta

\* onChunk(accumulatedText)
SinkArg(accumulated, delta) == accumulated

Emit(st, delta) ==
    LET a == AppendDelta(st.acc, delta)
    IN  [st EXCEPT !.acc = a,
                   !.sink = Append(@, SinkArg(a, delta)),
                   !.decoded = Append(@, delta)]

RethrowParseError(st) == [st EXCEPT !.thrown = TRUE]

\* catch (e) { console.warn(...) }
SwallowParseError(st) == st

\* if (!trimmedLine || trimmedLine === "data: [DONE]") continue;
IsSkippedLine(trimmed) == trimmed = << >> \/ trimmed = << Marker, Done >>

\* body of  for (const line of lines)
SSEProcessLine(st, line) ==
    LET trimmed == Trim(line)
    IN  IF st.thrown \/ IsSkippedLine(trimmed) THEN st
        ELSE IF StartsWithMarker(trimmed)
             THEN LET p == ParseJSON(RemoveFirstMarker(trimmed))
                  IN  IF ~p.ok THEN SwallowParseError(st)
                      ELSE IF p.text # << >> THEN Emit(st, p.text)
                      ELSE st
        ELSE st

RECURSIVE SSEProcessLines(_, _)
SSEProcessLines(st, lines) ==
    IF lines = << >> THEN st
    ELSE SSEProcessLines(SSEProcessLine(st, Head(lines)), Tail(lines))

\* one iteration of the SSE read loop on a decoded chunk
SSEProcessChunk(st, chunk) == SSEProcessLines(st, SplitLines(<< >>, chunk))

ObjectCompleteEarly(bracketCount, startIndex) == bracketCount <= 1 /\ startIndex # -1

\* if (bracketCount === 0 && startIndex !== -1)
ObjectComplete(bracketCount, startIndex) == bracketCount = 0 /\ startIndex # -1

\* try { JSON.parse(jsonStr) ... onChunk(...) } catch (e) { /* ignore */ }
ParseObject(st, jsonStr) ==
    LET p == ParseJSON(jsonStr)
    IN  IF p.ok /\ p.text # << >> THEN Emit(st, p.text) ELSE st

\* for (let i = 0; i < buffer.length; i++) { ... }   (positions are 1-based)
RECURSIVE BraceScan(_, _, _, _, _)
BraceScan(buf, i, bracketCount, startIndex, st) ==
    IF i > Len(buf) THEN st
    ELSE IF buf[i] = "{"
         THEN BraceScan(buf, i + 1, bracketCount + 1,
                        IF bracketCount = 0 THEN i ELSE startIndex, st)
    ELSE IF buf[i] = "}"
         THEN IF ObjectComplete(bracketCount - 1, startIndex)
              THEN BraceScan(buf, i + 1, bracketCount - 1, -1,
                             ParseObject(st, SubSeq(buf, startIndex, i)))
              ELSE BraceScan(buf, i + 1, bracketCount - 1, startIndex, st)
    ELSE BraceScan(buf, i + 1, bracketCount, startIndex, st)

\* lowest value bracketCount takes while the loop scans buf from its start
RECURSIVE BraceMinDepth(_, _, _)
BraceMinDepth(buf, i, bracketCount) ==
    IF i > Len(buf) THEN bracketCount
    ELSE LET c == IF buf[i] = "{" THEN bracketCount + 1
                  ELSE IF buf[i] = "}" THEN bracketCount - 1
                  ELSE bracketCount
             m == BraceMinDepth(buf, i + 1, c)
         IN  IF m < bracketCount THEN m ELSE bracketCount

\* one iteration of the brace read loop: bracketCount and startIndex are
\* re-initialised and the whole cumulative buffer is scanned from its start
BraceProcessBuffer(st, buf) == BraceScan(buf, 1, 0, -1, st)

\* emits whatever the chunk carries
SdkProcessChunkAlways(st, text) == Emit(st, text)

\* body of  for await (const chunk of result)  (SDK stream)
SdkProcessChunk(st, text) == IF text # << >> THEN Emit(st, text) ELSE st

\* ----------------------------------------------------- provider responses
SSEKinds   == {"a", "b", "empty", "bad", "blank"}
BraceKinds == {"a", "b", "empty", "bad", "brace"}
SdkKinds   == {"a", "b", "empty"}

FrameText(k) ==
    CASE k = "a"     -> << "a" >>
      [] k = "b"     -> << "b" >>
      [] k = "brace" -> << "}" >>
      [] OTHER       -> << >>

\* one line of an OpenAI-compatible event stream
SSEFrame(k) ==
    CASE k = "a"     -> << Marker, "{", Q, "a", Q, "}", NL >>
      [] k = "b"     -> << Marker, "{", Q, "b", Q, "}", NL >>
      [] k = "empty" -> << Marker, "{", "}", NL >>
      [] k = "bad"   -> << Marker, "{", NL >>
      [] k = "blank" -> << NL >>
      [] k = "done"  -> << Marker, Done, NL >>

\* one element of the Gemini JSON-array stream
BraceObject(k) ==
    CASE k = "a"     -> << "{", "{", Q, "a", Q, "}", "}" >>
      [] k = "b"     -> << "{", "{", Q, "b", Q, "}", "}" >>
      [] k = "empty" -> << "{", "{", "}", "}" >>
      [] k = "bad"   -> << "{", "x", "}" >>
      [] k = "brace" -> << "{", "{", Q, "}", Q, "}", "}" >>

RECURSIVE SSEWire(_)
SSEWire(fs) == IF fs = << >> THEN << >> ELSE SSEFrame(Head(fs)) \o SSEWire(Tail(fs))

RECURSIVE BraceElements(_)
BraceElements(fs) ==
    IF fs = << >> THEN << >>
    ELSE IF Len(fs) = 1 THEN BraceObject(Head(fs))
    ELSE BraceObject(Head(fs)) \o << "," >> \o BraceElements(Tail(fs))

BraceWire(fs) == << "[" >> \o BraceElements(fs) \o << "]" >>

SeqsUpTo(S, n) == UNION { [1..m -> S] : m \in 0..n }

\* a JSON document, and the texts a provider may answer with
Doc == << "{", "}" >>

Contents == { << >>, << "a" >>, Doc, << NL, "{", "}", NL >>,
              << Fence, NL, "{", "}", NL, Ticks >>, << Fence, "{", "}", Ticks >> }

Bodies == { [json |-> FALSE, shape |-> FALSE, content |-> << >>],
            [json |-> TRUE,  shape |-> FALSE, content |-> << >>] }
          \cup { [json |-> TRUE, shape |-> TRUE, content |-> c] : c \in Contents }

ErrorStatuses == {400, 403, 404, 500}

\* ------------------------------------------------------ provider registry
Null == [apiKey |-> "", baseUrl |-> "null", model |-> "null", providerName |-> "null"]

\* a fresh object literal on every call
getProviderConfigFresh(p) ==
    CASE p = "deepseek" -> [apiKey |-> env["deepseek"],
                            baseUrl |-> "https://api.deepseek.com/chat/completions",
                            model |-> "deepseek-chat",
                            providerName |-> "DeepSeek"]
      [] p = "gpt"      -> [apiKey |-> env["gpt"],
                            baseUrl |-> IF variant = "sdk"
                                        THEN "/openai-api/v1/chat/completions"
                                        ELSE "<origin>/openai-api/v1/chat/completions",
                            model |-> "gpt-4o",
                            providerName |-> "OpenAI (GPT-4o)"]
      [] p = "qwen"     -> [apiKey |-> env["qwen"],
                            baseUrl |-> "https://dashscope.aliyuncs.com/compatible-mode/v1/chat/completions",
                            model |-> "qwen-max",
                            providerName |-> IF variant = "sdk" THEN "Qwen (DashScope)"
                                             ELSE "Qwen"]
      [] OTHER          -> Null

\* one object per provider, handed out again on every call
getProviderConfigShared(p) ==
    IF p = "qwen" /\ vlSent
    THEN [getProviderConfigFresh(p) EXCEPT !.model = "qwen-vl-max"]
    ELSE getProviderConfigFresh(p)

getProviderConfig(p) == getProviderConfigFresh(p)

\* const apiKey = process.env.API_KEY || 'MISSING_API_KEY'   (sdk)
\* const apiKey = process.env.API_KEY || ''                  (fetch)
apiKey ==
    IF variant = "sdk" /\ env["gemini"] = "" THEN "MISSING_API_KEY" ELSE env["gemini"]

GeminiModel == "gemini-3-flash-preview"

\* sends every provider that has a configuration to that provider
UsesOpenAIAlways(o, p) == getProviderConfig(p) # Null

\* which branch of the operation is taken
UsesOpenAI(o, p) ==
    IF o = "analyzeReceiptImage" THEN p \in {"gpt", "qwen"} /\ getProviderConfig(p) # Null
    ELSE getProviderConfig(p) # Null

\* the model override written into the registry entry itself
LocalConfigSticky(o, p) ==
    LET c == getProviderConfig(p)
    IN  IF p = "qwen" /\ (o = "analyzeReceiptImage" \/ vlSent)
        THEN [c EXCEPT !.model = "qwen-vl-max"]
        ELSE c

\* const config = getProviderConfig(provider);
\* if (provider === 'qwen') config.model = 'qwen-vl-max';   (analyzeReceiptImage)
LocalConfig(o, p) ==
    LET c == getProviderConfig(p)
    IN  IF o = "analyzeReceiptImage" /\ p = "qwen" THEN [c EXCEPT !.model = "qwen-vl-max"]
        ELSE c

RequestModel(o, p) ==
    IF ~UsesOpenAI(o, p) THEN GeminiModel ELSE LocalConfig(o, p).model

\* stream: isStreaming (OpenAI-compatible); streamGenerateContent whatever the
\* sink (fetch chat); sendMessageStream iff onChunk (sdk chat)
RequestStreaming(o, p, s) ==
    IF UsesOpenAI(o, p) THEN s
    ELSE IF o = "sendChatMessage" THEN (IF variant = "fetch" THEN TRUE ELSE s)
    ELSE FALSE

\* ------------------------------------------------------------ orchestrator
NoResult == [kind |-> "none", text |-> << >>, err |-> "none"]
Value(t) == [kind |-> "value", text |-> t, err |-> "none"]
Error(e) == [kind |-> "error", text |-> << >>, err |-> e]
ErrorWith(e, msg) == [kind |-> "error", text |-> msg, err |-> e]

NoBody == [json |-> FALSE, shape |-> FALSE, content |-> << >>]

Terminal == {"Completed", "Failed"}

\* sendChatMessage of the sdk variant wraps both branches in
\* try { ... } catch (error) { return "Sorry, ..." }
Caught == variant = "sdk" /\ op = "sendChatMessage"

SorryText ==
    IF UsesOpenAI(op, provider)
    THEN << "Sorry, I encountered an error connecting to ",
            getProviderConfig(provider).providerName, "." >>
    ELSE << "Sorry, I encountered an error connecting to the service." >>

\* every throw site is `throw new Error(...)`: the thrown object has the
\* message and no other distinguishing member
ErrorName(f) == "Error"

\* an exception f with message msg raised inside the call, as the caller sees it
Thrown(f, msg) ==
    /\ failure' = f
    /\ failedAt' = pc
    /\ IF Caught
       THEN pc' = "Completed" /\ result' = Value(SorryText)
       ELSE pc' = "Failed" /\ result' = ErrorWith(f, msg)

Raise(f) == Thrown(f, << >>)

\* raw bodies of error responses
ErrorTexts == { << "oops" >>,
                << "{", Q, "API key not valid", Q, "}" >>,
                << "{", Q, "leaked", Q, "}" >> }

\* throw new Error(`${config.providerName} API Error: ${response.status} - ${errorText}`)
\* throw new Error(`Gemini API Error: ...`), `Gemini Vision Error: ...`, `Gemini Chat Error: ...`
\* (sdk variant, Gemini: the exception of the SDK call, which carries both)
HttpMessage(o, p, st, t) ==
    LET name == IF UsesOpenAI(o, p) THEN << getProviderConfig(p).providerName, " API Error: " >>
                ELSE IF variant = "sdk" THEN << "ApiError: " >>
                ELSE IF o = "analyzeFinancialData" THEN << "Gemini API Error: " >>
                ELSE IF o = "analyzeReceiptImage" THEN << "Gemini Vision Error: " >>
                ELSE << "Gemini Chat Error: " >>
    IN  name \o << ToString(st), " - " >> \o t

FetchAttemptsRetry(ok) == IF ok THEN 1 ELSE 2

\* number of fetch calls one call makes, given whether the first succeeded
FetchAttempts(ok) == 1

\* no call has been made yet
CoreIdle ==
    /\ pc = "Idle"
    /\ op = "none"
    /\ provider = "none"
    /\ sink = FALSE
    /\ fileOk = TRUE
    /\ target = "none"
    /\ model = "none"
    /\ streaming = FALSE
    /\ config = Null
    /\ requests = 0
    /\ decoder = "none"
    /\ frames = << >>
    /\ wire = << >>
    /\ status = 0
    /\ body = NoBody
    /\ buffer = << >>
    /\ acc = << >>
    /\ sinkLog = << >>
    /\ decoded = << >>
    /\ wholeLines = TRUE
    /\ reads = 0
    /\ failure = "none"
    /\ failedAt = "none"
    /\ sinkAtFail = << >>
    /\ result = NoResult
    /\ vlSent = FALSE

NoCalls == << >>

NoChat == [phase |-> "idle", provider |-> "none", language |-> "none",
           newMessage |-> << >>, given |-> << >>, payload |-> "none"]

NoHeap == [caller |-> << >>, copy |-> << >>]

PairIdle == calls = NoCalls

ChatIdle == chat = NoChat /\ heap = NoHeap

NoTwice == [round |-> 0, input |-> "none", mock |-> "none", first |-> "none"]

\* the first greeting of the assistant
Greeting == [role |-> "model", of |-> 0]

\* the initial values of the useState hooks
AppMounted ==
    [session |-> FALSE, isLoginModalOpen |-> FALSE, currentView |-> "DASHBOARD",
     chatHistory |-> << Greeting >>, chatInput |-> "", isChatLoading |-> FALSE]
ImageMounted == [selectedFile |-> "null", status |-> "IDLE", analysisText |-> ""]
AuditMounted == [inputText |-> "", status |-> "IDLE", result |-> "null"]

\* what a render of App captures for its handlers and its children's props
Snapshot(a) ==
    [session |-> a.session, chatHistory |-> a.chatHistory,
     chatInput |-> a.chatInput, isChatLoading |-> a.isChatLoading]

UIIdle ==
    /\ app = AppMounted
    /\ closure = Snapshot(AppMounted)
    /\ imageView = ImageMounted
    /\ auditView = AuditMounted
    /\ pending = {}
    /\ clock = 0

OthersIdle ==
    /\ PairIdle
    /\ ChatIdle
    /\ twice = NoTwice
    /\ UIIdle

Init ==
    /\ variant \in Variants
    /\ env \in Envs
    /\ CoreIdle
    /\ OthersIdle

\* an operation is invoked
CallCore(o, p, s, f) ==
    /\ pc = "Idle"
    /\ pc' = "Building"
    /\ op' = o
    /\ provider' = p
    /\ sink' = s
    /\ fileOk' = f
    /\ UNCHANGED << variant, env, vlSent, target, model, streaming, config, requests, decoder, frames, wire,
                    status, body, buffer, acc, sinkLog, decoded, wholeLines, reads,
                    failure, failedAt, sinkAtFail, result >>

\* the UI invokes an operation
Call(o, p, s, f) == CallCore(o, p, s, f) /\ UNCHANGED others

\* from entry up to the fetch / SDK call: credential check, file read, payload
Build ==
    /\ pc = "Building"
    /\ LET openai == UsesOpenAI(op, provider)
           doc    == op = "analyzeReceiptImage"
           fail   == IF openai
                     THEN IF doc /\ ~fileOk THEN "FileRead"
                          ELSE IF getProviderConfig(provider).apiKey = "" THEN "MissingKey"
                          ELSE "none"
                     ELSE IF variant = "fetch" /\ apiKey = "" THEN "MissingKey"
                          ELSE IF doc /\ ~fileOk THEN "FileRead"
                          ELSE "none"
       IN  IF fail # "none"
           THEN /\ Raise(fail)
                /\ UNCHANGED << target, model, streaming, requests >>
           ELSE /\ pc' = "Sent"
                /\ target' = IF openai THEN provider ELSE "gemini"
                /\ model' = RequestModel(op, provider)
                /\ streaming' = RequestStreaming(op, provider, sink)
                /\ requests' = requests + 1
                /\ UNCHANGED << failure, failedAt, result >>
    /\ config' = IF UsesOpenAI(op, provider) THEN LocalConfig(op, provider) ELSE config
    /\ UNCHANGED << variant, env, vlSent, op, provider, sink, fileOk, decoder, frames, wire,
                    status, body, buffer, acc, sinkLog, decoded, wholeLines, reads, sinkAtFail >>
    /\ UNCHANGED others

\* fetch rejects (no connection)
NetworkFail ==
    /\ pc = "Sent"
    /\ Raise("Network")
    /\ requests' = requests + (FetchAttempts(FALSE) - 1)
    /\ UNCHANGED << variant, env, vlSent, op, provider, sink, fileOk, target, model, streaming, config, decoder,
                    frames, wire, status, body, buffer, acc, sinkLog, decoded, wholeLines,
                    reads, sinkAtFail >>
    /\ UNCHANGED others

\* if (!response.ok) { ... throw new Error(...) }
HttpError ==
    /\ pc = "Sent"
    /\ \E st \in ErrorStatuses, errorText \in ErrorTexts :
         /\ status' = st
         /\ body' = [json |-> ParseJSON(errorText).ok, shape |-> FALSE, content |-> errorText]
         /\ Thrown("Http", HttpMessage(op, provider, st, errorText))
    /\ UNCHANGED << variant, env, vlSent, op, provider, sink, fileOk, target, model, streaming, config, requests,
                    decoder, frames, wire, buffer, acc, sinkLog, decoded,
                    wholeLines, reads, sinkAtFail >>
    /\ UNCHANGED others

\* 2xx answer to a streaming request: the read loop is entered.  The server
\* sends up to MaxFrames frames and, on an event stream, may close it with
\* the terminator line.
RespondStream ==
    /\ pc = "Sent"
    /\ sink
    /\ LET d == IF target # "gemini" THEN "sse"
                ELSE IF variant = "fetch" THEN "brace" ELSE "sdk"
           K == IF d = "sse" THEN SSEKinds ELSE IF d = "brace" THEN BraceKinds ELSE SdkKinds
       IN  /\ decoder' = d
           /\ \E fs \in SeqsUpTo(K, MaxFrames), terminated \in BOOLEAN :
                /\ terminated => d = "sse"
                /\ frames' = (IF terminated THEN Append(fs, "done") ELSE fs)
                /\ wire' = IF d = "sse" THEN SSEWire(frames')
                           ELSE IF d = "brace" THEN BraceWire(fs) ELSE fs
    /\ pc' = "Streaming"
    /\ status' = 200
    /\ UNCHANGED << variant, env, vlSent, op, provider, sink, fileOk, target, model, streaming, config, requests,
                    body, buffer, acc, sinkLog, decoded, wholeLines, reads,
                    failure, failedAt, sinkAtFail, result >>
    /\ UNCHANGED others

\* 2xx answer read as a whole: the body is awaited.  streamGenerateContent
\* answers with a JSON array, which has no candidates member.
RespondBody ==
    /\ pc = "Sent"
    /\ ~sink
    /\ pc' = "AwaitingResponse"
    /\ status' = 200
    /\ body' \in Bodies
    /\ streaming => ~body'.shape
    /\ UNCHANGED << variant, env, vlSent, op, provider, sink, fileOk, target, model, streaming, config, requests,
                    decoder, frames, wire, buffer, acc, sinkLog, decoded, wholeLines,
                    reads, failure, failedAt, sinkAtFail, result >>
    /\ UNCHANGED others

\* const { done, value } = await reader.read()  with done = false, then the
\* body of the read loop on that chunk (the SDK iterator yields one response)
ReadChunk ==
    /\ pc = "Streaming"
    /\ wire # << >>
    /\ \E k \in 1..(IF decoder = "sdk" THEN 1 ELSE Len(wire)) :
         LET chunk == SubSeq(wire, 1, k)
             st0   == [acc |-> acc, sink |-> sinkLog, decoded |-> decoded, thrown |-> FALSE]
             buf   == IF decoder = "brace" THEN buffer \o chunk ELSE buffer
             st1   == CASE decoder = "sse"   -> SSEProcessChunk(st0, chunk)
                        [] decoder = "brace" -> BraceProcessBuffer(st0, buf)
                        [] decoder = "sdk"   -> SdkProcessChunk(st0, FrameText(chunk[1]))
         IN  /\ wire' = SubSeq(wire, k + 1, Len(wire))
             /\ buffer' = buf
             /\ acc' = st1.acc
             /\ sinkLog' = st1.sink
             /\ decoded' = st1.decoded
             /\ wholeLines' = (wholeLines /\ (decoder = "sse" => chunk[k] = NL))
             /\ reads' = IF reads < 2 THEN reads + 1 ELSE 2
             /\ IF st1.thrown
                THEN Raise("Parse") /\ sinkAtFail' = st1.sink
                ELSE UNCHANGED << pc, failure, failedAt, sinkAtFail, result >>
    /\ UNCHANGED << variant, env, vlSent, op, provider, sink, fileOk, target, model, streaming, config, requests,
                    decoder, frames, status, body >>
    /\ UNCHANGED others

\* return accumulatedText          (SSE and SDK loops)
\* return accumulatedText || " "   (brace loop)
StreamReturn(d, accumulated) ==
    IF d = "brace" /\ accumulated = << >> THEN << " " >> ELSE accumulated

\* reader.read() reports done: the loop is left and the call returns
ReadDone ==
    /\ pc = "Streaming"
    /\ wire = << >>
    /\ pc' = "Completed"
    /\ result' = Value(StreamReturn(decoder, acc))
    /\ UNCHANGED << variant, env, vlSent, op, provider, sink, fileOk, target, model, streaming, config, requests,
                    decoder, frames, wire, status, body, buffer, acc, sinkLog, decoded,
                    wholeLines, reads, failure, failedAt, sinkAtFail >>
    /\ UNCHANGED others

\* reader.read() rejects: the connection broke before the end of the stream
ReadFail ==
    /\ pc = "Streaming"
    /\ Raise("Stream")
    /\ sinkAtFail' = sinkLog
    /\ UNCHANGED << variant, env, vlSent, op, provider, sink, fileOk, target, model, streaming, config, requests,
                    decoder, frames, wire, status, body, buffer, acc, sinkLog, decoded,
                    wholeLines, reads >>
    /\ UNCHANGED others

RedirectNote ==
    << "**Note:** DeepSeek text model does not support image/document analysis. Switching to Gemini 3 Flash." >>

\* JSON.parse of a whole document (surrounding whitespace is allowed); the
\* parsed value is written as the document without that whitespace
ParseDocumentLenient(t) ==
    IF ParseJSON(Trim(t)).ok THEN [fail |-> "none", text |-> Trim(t)]
    ELSE [fail |-> "none", text |-> t]

ParseDocument(t) ==
    IF ParseJSON(Trim(t)).ok THEN [fail |-> "none", text |-> Trim(t)]
    ELSE [fail |-> "Parse", text |-> << >>]

\* what the operation does with a fully received non-streaming body:
\* [fail |-> exception or "none", text |-> returned text]
BodyOutcome(o, p, b) ==
    LET content == IF b.shape THEN b.content ELSE << >>
    IN  IF ~b.json THEN [fail |-> "Parse", text |-> << >>]
        ELSE IF UsesOpenAI(o, p)
        THEN IF ~b.shape THEN [fail |-> "Parse", text |-> << >>]
             ELSE IF o = "analyzeFinancialData" THEN ParseDocument(CleanText(content))
             ELSE [fail |-> "none", text |-> content]
        ELSE CASE o = "analyzeFinancialData" ->
                    IF content = << >> THEN [fail |-> "Empty", text |-> << >>]
                    ELSE ParseDocument(content)
               [] o = "analyzeReceiptImage" ->
                    [fail |-> "none",
                     text |-> (IF variant = "sdk" /\ p = "deepseek" THEN RedirectNote ELSE << >>)
                              \o (IF content = << >> THEN << "No analysis generated." >>
                                  ELSE content)]
               [] o = "sendChatMessage" ->
                    [fail |-> "none",
                     text |-> IF content # << >> THEN content
                              ELSE IF variant = "sdk"
                                   THEN << "I'm not sure how to answer that." >>
                                   ELSE << >>]

\* await response.json() / the SDK call resolves, then the rest of the operation
ReceiveBody ==
    /\ pc = "AwaitingResponse"
    /\ LET out == BodyOutcome(op, provider, body)
       IN  IF out.fail # "none"
           THEN Raise(out.fail)
           ELSE /\ pc' = "Completed"
                /\ result' = Value(out.text)
                /\ UNCHANGED << failure, failedAt >>
    /\ UNCHANGED << variant, env, vlSent, op, provider, sink, fileOk, target, model, streaming, config, requests,
                    decoder, frames, wire, status, body, buffer, acc, sinkLog, decoded,
                    wholeLines, reads, sinkAtFail >>
    /\ UNCHANGED others

\* the call is over; the next one starts from scratch (no module state is kept)
\* a new call starts with the request count the last one ended with
ResetCoreKeepsCount ==
    /\ pc \in Terminal
    /\ pc' = "Idle"
    /\ op' = "none"
    /\ provider' = "none"
    /\ sink' = FALSE
    /\ fileOk' = TRUE
    /\ target' = "none"
    /\ model' = "none"
    /\ streaming' = FALSE
    /\ requests' = requests
    /\ decoder' = "none"
    /\ frames' = << >>
    /\ wire' = << >>
    /\ status' = 0
    /\ body' = NoBody
    /\ buffer' = << >>
    /\ acc' = << >>
    /\ sinkLog' = << >>
    /\ decoded' = << >>
    /\ wholeLines' = TRUE
    /\ reads' = 0
    /\ failure' = "none"
    /\ failedAt' = "none"
    /\ sinkAtFail' = << >>
    /\ result' = NoResult
    /\ vlSent' = (vlSent \/ model = "qwen-vl-max")
    /\ config' = Null
    /\ UNCHANGED << variant, env >>

\* nothing of a call survives it
ResetCore ==
    /\ pc \in Terminal
    /\ pc' = "Idle"
    /\ op' = "none"
    /\ provider' = "none"
    /\ sink' = FALSE
    /\ fileOk' = TRUE
    /\ target' = "none"
    /\ model' = "none"
    /\ streaming' = FALSE
    /\ requests' = 0
    /\ decoder' = "none"
    /\ frames' = << >>
    /\ wire' = << >>
    /\ status' = 0
    /\ body' = NoBody
    /\ buffer' = << >>
    /\ acc' = << >>
    /\ sinkLog' = << >>
    /\ decoded' = << >>
    /\ wholeLines' = TRUE
    /\ reads' = 0
    /\ failure' = "none"
    /\ failedAt' = "none"
    /\ sinkAtFail' = << >>
    /\ result' = NoResult
    /\ vlSent' = (vlSent \/ model = "qwen-vl-max")
    /\ config' = Null
    /\ UNCHANGED << variant, env >>

Reset == ResetCore /\ UNCHANGED others

Invoke ==
    \E o \in Ops, p \in Providers, s \in BOOLEAN, f \in BOOLEAN :
        /\ s => o = "sendChatMessage"
        /\ ~f => o = "analyzeReceiptImage"
        /\ Call(o, p, s, f)

Next ==
    \/ Invoke
    \/ Build
    \/ NetworkFail
    \/ HttpError
    \/ RespondStream
    \/ RespondBody
    \/ ReadChunk
    \/ ReadDone
    \/ ReadFail
    \/ ReceiveBody
    \/ Reset

Spec == Init /\ [][Next]_vars

\* ------------------------------------------------ two calls in flight
\* Two sendChatMessage calls with a sink whose responses have arrived; their
\* reads interleave.  Every read delivers one frame of the call's response.
PairKinds == {"a", "b", "empty"}

FullEnv == [p \in Providers |-> "k"]

\* let accumulatedText = ""; let buffer = "";   declared inside the call
FreshLocals == [buffer |-> << >>, acc |-> << >>, sink |-> << >>, decoded |-> << >>]

\* the chunks of a response delivered frame by frame
PairChunks(d, fs) ==
    IF d = "sse" THEN [i \in 1..Len(fs) |-> SSEFrame(fs[i])]
    ELSE IF d = "sdk" THEN [i \in 1..Len(fs) |-> FrameText(fs[i])]
    ELSE IF fs = << >> THEN << << "[", "]" >> >>
    ELSE [i \in 1..Len(fs) |->
            (IF i = 1 THEN << "[" >> ELSE << "," >>) \o BraceObject(fs[i])
                \o (IF i = Len(fs) THEN << "]" >> ELSE << >>)]

\* one iteration of the read loop of decoder d on the call's locals
StepDecoder(d, loc, chunk) ==
    LET st0 == [acc |-> loc.acc, sink |-> loc.sink, decoded |-> loc.decoded, thrown |-> FALSE]
        buf == IF d = "brace" THEN loc.buffer \o chunk ELSE loc.buffer
        st1 == CASE d = "sse"   -> SSEProcessChunk(st0, chunk)
                 [] d = "brace" -> BraceProcessBuffer(st0, buf)
                 [] d = "sdk"   -> SdkProcessChunk(st0, chunk)
    IN  [buffer |-> buf, acc |-> st1.acc, sink |-> st1.sink, decoded |-> st1.decoded]

\* every call reads and writes the locals of the first call
SharedLocals(cs, c) == cs[1].loc

\* the locals a call reads and writes are its own
OwnLocals(cs, c) == cs[c].loc

PairDecoders == IF variant = "fetch" THEN {"sse", "brace"} ELSE {"sse", "sdk"}

PairInit ==
    /\ variant \in Variants
    /\ env = FullEnv
    /\ CoreIdle
    /\ OthersIdle

\* what the two-call view leaves alone
pairFrame == << coreVars, chatVars, twiceVars, uiVars >>

\* both calls have been sent and answered with 200
PairStart ==
    /\ calls = NoCalls
    /\ \E d1 \in PairDecoders, d2 \in PairDecoders,
          f1 \in SeqsUpTo(PairKinds, MaxFrames), f2 \in SeqsUpTo(PairKinds, MaxFrames) :
         calls' = [c \in 1..2 |->
                     [decoder |-> IF c = 1 THEN d1 ELSE d2,
                      pending |-> PairChunks(IF c = 1 THEN d1 ELSE d2, IF c = 1 THEN f1 ELSE f2),
                      delivered |-> << >>,
                      loc |-> FreshLocals,
                      done |-> FALSE,
                      text |-> << >>]]
    /\ UNCHANGED pairFrame

\* reader.read() of call c resolves with the next chunk
PairRead(c) ==
    /\ calls # NoCalls
    /\ ~calls[c].done
    /\ calls[c].pending # << >>
    /\ LET chunk == Head(calls[c].pending)
       IN  calls' = [calls EXCEPT ![c].pending = Tail(@),
                                  ![c].delivered = Append(@, chunk),
                                  ![c].loc = StepDecoder(calls[c].decoder, OwnLocals(calls, c), chunk)]
    /\ UNCHANGED pairFrame

\* reader.read() of call c reports done: call c returns
PairReturn(c) ==
    /\ calls # NoCalls
    /\ ~calls[c].done
    /\ calls[c].pending = << >>
    /\ calls' = [calls EXCEPT ![c].done = TRUE,
                              ![c].text = StreamReturn(calls[c].decoder, OwnLocals(calls, c).acc)]
    /\ UNCHANGED pairFrame

\* both calls are over
PairReset ==
    /\ calls # NoCalls
    /\ \A c \in 1..2 : calls[c].done
    /\ calls' = NoCalls
    /\ UNCHANGED pairFrame

PairNext ==
    \/ PairStart
    \/ \E c \in 1..2 : PairRead(c)
    \/ \E c \in 1..2 : PairReturn(c)
    \/ PairReset

SpecPair == PairInit /\ [][PairNext]_vars

\* ------------------------------------------------ chat request payload
\* sendChatMessage from its arguments to the request it sends.  Arrays are
\* objects: heap["caller"] is the history array the caller passed, and
\* heap["copy"] the array the call builds.
Roles == {"user", "model"}
Turns == [role : Roles, text : {<< "x" >>, << "y" >>}]
NewMessages == {<< "x" >>, << "n" >>}
Languages == {"en", "zh"}

\* the persona of the language; never empty
SystemInstruction(lang) == IF lang = "zh" THEN << "persona-zh" >> ELSE << "persona-en" >>

MapRoleKeep(role) == role

\* msg.role === 'model' ? 'assistant' : 'user'
MapRole(role) == IF role = "model" THEN "assistant" ELSE "user"

\* history.map(msg => ({ role: ..., content: msg.text }))
MapOpenAI(h) == [i \in 1..Len(h) |-> [role |-> MapRole(h[i].role), content |-> h[i].text]]

\* history.map(msg => ({ role: msg.role, parts: [{ text: msg.text }] }))
MapGemini(h) == [i \in 1..Len(h) |-> [role |-> h[i].role, content |-> h[i].text]]

\* the array the mapped turns are written to is the argument itself
MessagesRefAlias(ref) == ref

\* Array.prototype.map returns a new array
MessagesRef(ref) == "copy"

\* messages: [...(systemInstruction ? [{ role: "system", ... }] : []), ...messages]
WithSystem(systemInstruction, messages) ==
    (IF systemInstruction # << >>
     THEN << [role |-> "system", content |-> systemInstruction] >> ELSE << >>) \o messages

\* the heap after the call has built its array: map, then push where the
\* code pushes (the SDK path passes the new message on its own)
BuildArrays(h, p, newMessage) ==
    LET m      == MessagesRef("caller")
        mapped == IF UsesOpenAI("sendChatMessage", p) THEN MapOpenAI(h["caller"])
                  ELSE MapGemini(h["caller"])
        h1     == [h EXCEPT ![m] = mapped]
    IN  IF ~UsesOpenAI("sendChatMessage", p) /\ variant = "sdk" THEN h1
        ELSE [h1 EXCEPT ![m] = Append(@, [role |-> "user", content |-> newMessage])]

\* the request: messages, and what travels beside them
ChatPayload(h, p, lang, newMessage) ==
    LET m == MessagesRef("caller")
    IN  IF UsesOpenAI("sendChatMessage", p)
        THEN [model |-> RequestModel("sendChatMessage", p),
              messages |-> WithSystem(SystemInstruction(lang), h[m]),
              system |-> << >>, message |-> << >>]
        ELSE [model |-> GeminiModel,
              messages |-> h[m],
              system |-> SystemInstruction(lang),
              message |-> IF variant = "sdk" THEN newMessage ELSE << >>]

ChatInit ==
    /\ variant \in Variants
    /\ env = FullEnv
    /\ CoreIdle
    /\ OthersIdle

chatFrame == << coreVars, pairVars, twiceVars, uiVars >>

\* sendChatMessage(history, newMessage, provider, language)
ChatCall ==
    /\ chat.phase = "idle"
    /\ \E h \in SeqsUpTo(Turns, MaxHistory), n \in NewMessages, p \in Providers, l \in Languages :
         /\ chat' = [NoChat EXCEPT !.phase = "called", !.provider = p, !.language = l,
                                   !.newMessage = n, !.given = h]
         /\ heap' = [NoHeap EXCEPT !.caller = h]
    /\ UNCHANGED chatFrame

\* up to the fetch / SDK call
ChatBuild ==
    /\ chat.phase = "called"
    /\ LET h2 == BuildArrays(heap, chat.provider, chat.newMessage)
       IN  /\ heap' = h2
           /\ chat' = [chat EXCEPT !.phase = "sent",
                                   !.payload = ChatPayload(h2, chat.provider, chat.language,
                                                           chat.newMessage)]
    /\ UNCHANGED chatFrame

\* the call returns a text or fails
ChatEnd ==
    /\ chat.phase = "sent"
    /\ \E ok \in BOOLEAN : chat' = [chat EXCEPT !.phase = IF ok THEN "returned" ELSE "failed"]
    /\ UNCHANGED << heap, chatFrame >>

ChatReset ==
    /\ chat.phase \in {"returned", "failed"}
    /\ chat' = NoChat
    /\ heap' = NoHeap
    /\ UNCHANGED chatFrame

ChatNext ==
    \/ ChatCall
    \/ ChatBuild
    \/ ChatEnd
    \/ ChatReset

SpecChat == ChatInit /\ [][ChatNext]_vars

\* ------------------------------------- the same analysis asked twice
\* analyzeFinancialData(data, provider, language, scenario) is called, ends,
\* and is called again with the same arguments; the provider answers a
\* request the same way each time (mock).
TwiceInputs == [data : {"d1", "d2"}, provider : Providers, language : Languages, scenario : {"general", "fraud"}]

\* what a deterministic provider does with the one request it is sent
Mocks == { [kind |-> "network", status |-> 0, body |-> NoBody] }
         \cup { [kind |-> "http", status |-> st,
                 body |-> [json |-> ParseJSON(t).ok, shape |-> FALSE, content |-> t]] :
                    st \in ErrorStatuses, t \in ErrorTexts }
         \cup { [kind |-> "body", status |-> 200, body |-> b] : b \in Bodies }

\* getScenarioInstruction(scenario, langInstruction), and the prompt built
\* from the data and the language
FinancialMessages(input) ==
    << [role |-> "system", content |-> << "auditor", input.language, input.scenario >>],
       [role |-> "user", content |-> << "analyze", input.data, input.language >>] >>

\* the request a call has sent and what the caller got
Observed(input) ==
    [target |-> target, model |-> model, stream |-> streaming,
     messages |-> FinancialMessages(input), requests |-> requests,
     result |-> result, failure |-> failure]

TwiceInit ==
    /\ variant \in Variants
    /\ env \in Envs
    /\ CoreIdle
    /\ OthersIdle

twiceFrame == << pairVars, chatVars, uiVars >>

TwiceStart ==
    /\ twice.round = 0
    /\ \E i \in TwiceInputs, m \in Mocks :
         /\ CallCore("analyzeFinancialData", i.provider, FALSE, TRUE)
         /\ twice' = [NoTwice EXCEPT !.round = 1, !.input = i, !.mock = m]
    /\ UNCHANGED twiceFrame

TwiceBuild == twice.round # 0 /\ Build

TwiceNetworkFail == twice.round # 0 /\ twice.mock.kind = "network" /\ NetworkFail

TwiceHttpError ==
    /\ twice.round # 0
    /\ twice.mock.kind = "http"
    /\ HttpError
    /\ status' = twice.mock.status
    /\ body' = twice.mock.body

TwiceRespond ==
    /\ twice.round # 0
    /\ twice.mock.kind = "body"
    /\ RespondBody
    /\ body' = twice.mock.body

TwiceReceive == twice.round # 0 /\ ReceiveBody

\* the first call is over: the second one is made with the same arguments
TwiceRepeat ==
    /\ twice.round = 1
    /\ pc \in Terminal
    /\ ResetCore
    /\ twice' = [twice EXCEPT !.round = 2, !.first = Observed(twice.input)]
    /\ UNCHANGED twiceFrame

TwiceSecond ==
    /\ twice.round = 2
    /\ pc = "Idle"
    /\ CallCore("analyzeFinancialData", twice.input.provider, FALSE, TRUE)
    /\ UNCHANGED others

\* the second call is over
TwiceReset ==
    /\ twice.round = 2
    /\ pc \in Terminal
    /\ ResetCore
    /\ twice' = NoTwice
    /\ UNCHANGED twiceFrame

TwiceNext ==
    \/ TwiceStart
    \/ TwiceBuild
    \/ TwiceNetworkFail
    \/ TwiceHttpError
    \/ TwiceRespond
    \/ TwiceReceive
    \/ TwiceRepeat
    \/ TwiceSecond
    \/ TwiceReset

SpecTwice == TwiceInit /\ [][TwiceNext]_vars

\* ------------------------------------------------------ the views of App
\* App holds the session, the login modal, the view shown and the chat;
\* AuditView and ImageView are mounted while their view is shown and start
\* from their initial state each time.  An update made inside an event
\* handler is rendered before the next event is handled; an update made
\* after an await or in the auth subscription waits for the next render.
Files == {"f1", "f2"}
Views == {"DASHBOARD", "AUDIT_TEXT", "AUDIT_IMAGE", "CHAT"}

\* the text analyzeReceiptImage returns for a file
TextOf(f) == << "analysis", f >>

ServiceCall(o, n, a, h) == [op |-> o, id |-> n, arg |-> a, history |-> h]

CallsOf(o) == { c \in pending : c.op = o }

UIInit ==
    /\ variant = "sdk"
    /\ env = FullEnv
    /\ CoreIdle
    /\ OthersIdle

uiFrame == << coreVars, pairVars, chatVars, twiceVars >>

\* supabase.auth.onAuthStateChange((_event, session) => ...)
AuthChange ==
    /\ \E s \in BOOLEAN :
         /\ s # app.session
         /\ app' = [app EXCEPT !.session = s,
                               !.isLoginModalOpen = IF s THEN FALSE ELSE @]
    /\ UNCHANGED << closure, imageView, auditView, pending, clock, uiFrame >>

\* App renders again with the state it has now
Render ==
    /\ closure # Snapshot(app)
    /\ closure' = Snapshot(app)
    /\ UNCHANGED << app, imageView, auditView, pending, clock, uiFrame >>

\* the log-in buttons shown while there is no session
RequireLogin ==
    /\ ~closure.session
    /\ ~app.isLoginModalOpen
    /\ app' = [app EXCEPT !.isLoginModalOpen = TRUE]
    /\ UNCHANGED << closure, imageView, auditView, pending, clock, uiFrame >>

\* <LoginModal onClose={() => setIsLoginModalOpen(false)} />
CloseModal ==
    /\ app.isLoginModalOpen
    /\ app' = [app EXCEPT !.isLoginModalOpen = FALSE]
    /\ UNCHANGED << closure, imageView, auditView, pending, clock, uiFrame >>

\* setCurrentView(v): the view shown before is unmounted, and with it the
\* state its component held and the continuations that would have set it
Navigate ==
    /\ \E v \in Views :
         /\ v # app.currentView
         /\ app' = [app EXCEPT !.currentView = v]
    /\ imageView' = ImageMounted
    /\ auditView' = AuditMounted
    /\ pending' = CallsOf("sendChatMessage")
    /\ UNCHANGED << closure, clock, uiFrame >>

\* onChange={(e) => setChatInput(e.target.value)} of the chat input, which
\* is disabled without a session
TypeChat ==
    /\ app.currentView = "CHAT"
    /\ closure.session
    /\ \E t \in {"", "q"} :
         /\ t # app.chatInput
         /\ app' = [app EXCEPT !.chatInput = t]
         /\ closure' = [closure EXCEPT !.chatInput = t]
    /\ UNCHANGED << imageView, auditView, pending, clock, uiFrame >>

\* if (!chatInput.trim() || isChatLoading) return;   a submit with no call
\* pending only
ChatRefusedIdle(c) == c.chatInput = ""

ChatRefused(c) == c.chatInput = "" \/ c.isChatLoading

\* handleChatSubmit, up to its await
HandleChatSubmit ==
    /\ app.currentView = "CHAT"
    /\ IF ~closure.session
       THEN /\ app' = [app EXCEPT !.isLoginModalOpen = TRUE]
            /\ UNCHANGED << closure, pending, clock >>
       ELSE IF ChatRefused(closure)
       THEN UNCHANGED << app, closure, pending, clock >>
       ELSE LET userMsg == [role |-> "user", of |-> clock + 1]
            IN  /\ clock < MaxCalls
                /\ clock' = clock + 1
                /\ app' = [app EXCEPT !.chatHistory = Append(@, userMsg),
                                      !.chatInput = "",
                                      !.isChatLoading = TRUE]
                /\ closure' = [closure EXCEPT !.chatHistory = app'.chatHistory,
                                              !.chatInput = "",
                                              !.isChatLoading = TRUE]
                /\ pending' = pending \cup
                     { ServiceCall("sendChatMessage", clock + 1, userMsg, closure.chatHistory) }
    /\ UNCHANGED << imageView, auditView, uiFrame >>

\* sendChatMessage resolved: the reply is appended, then the finally block
ChatResolve ==
    /\ \E c \in CallsOf("sendChatMessage") :
         /\ app' = [app EXCEPT !.chatHistory = Append(@, [role |-> "model", of |-> c.id]),
                               !.isChatLoading = FALSE]
         /\ pending' = pending \ {c}
    /\ UNCHANGED << closure, imageView, auditView, clock, uiFrame >>

\* sendChatMessage rejected: catch, then the finally block
ChatReject ==
    /\ \E c \in CallsOf("sendChatMessage") :
         /\ app' = [app EXCEPT !.isChatLoading = FALSE]
         /\ pending' = pending \ {c}
    /\ UNCHANGED << closure, imageView, auditView, clock, uiFrame >>

\* onChange of the text area of AuditView
TypeAudit ==
    /\ app.currentView = "AUDIT_TEXT"
    /\ \E t \in {"", "ledger"} :
         /\ t # auditView.inputText
         /\ auditView' = [auditView EXCEPT !.inputText = t]
    /\ UNCHANGED << app, closure, imageView, pending, clock, uiFrame >>

\* handleAudit, up to its await; its button is disabled while PROCESSING
HandleAudit ==
    /\ app.currentView = "AUDIT_TEXT"
    /\ auditView.status # "PROCESSING"
    /\ IF ~closure.session
       THEN /\ app' = [app EXCEPT !.isLoginModalOpen = TRUE]
            /\ UNCHANGED << auditView, pending, clock >>
       ELSE IF auditView.inputText = ""
       THEN UNCHANGED << app, auditView, pending, clock >>
       ELSE /\ clock < MaxCalls
            /\ clock' = clock + 1
            /\ auditView' = [auditView EXCEPT !.status = "PROCESSING", !.result = "null"]
            /\ pending' = pending \cup
                 { ServiceCall("analyzeFinancialData", clock + 1, auditView.inputText, << >>) }
            /\ UNCHANGED app
    /\ UNCHANGED << closure, imageView, uiFrame >>

AuditResolve ==
    /\ \E c \in CallsOf("analyzeFinancialData") :
         /\ auditView' = [auditView EXCEPT !.result = c.arg, !.status = "SUCCESS"]
         /\ pending' = pending \ {c}
    /\ UNCHANGED << app, closure, imageView, clock, uiFrame >>

AuditReject ==
    /\ \E c \in CallsOf("analyzeFinancialData") :
         /\ auditView' = [auditView EXCEPT !.status = "ERROR"]
         /\ pending' = pending \ {c}
    /\ UNCHANGED << app, closure, imageView, clock, uiFrame >>

\* processFile(file)
processFile(file) ==
    imageView' = [selectedFile |-> file, status |-> "IDLE", analysisText |-> ""]

\* handleFileChange: the file input and the camera are shown while no file
\* is selected
HandleFileChange ==
    /\ app.currentView = "AUDIT_IMAGE"
    /\ imageView.selectedFile = "null"
    /\ \E f \in Files : processFile(f)
    /\ UNCHANGED << app, closure, auditView, pending, clock, uiFrame >>

\* clearFile: the button next to the selected document
clearFile ==
    /\ app.currentView = "AUDIT_IMAGE"
    /\ imageView.selectedFile # "null"
    /\ imageView' = [selectedFile |-> "null", status |-> "IDLE", analysisText |-> ""]
    /\ UNCHANGED << app, closure, auditView, pending, clock, uiFrame >>

\* handleAnalyze, up to its await; its button is shown with the selected
\* document and disabled while PROCESSING
HandleAnalyze ==
    /\ app.currentView = "AUDIT_IMAGE"
    /\ imageView.status # "PROCESSING"
    /\ imageView.selectedFile # "null"
    /\ clock < MaxCalls
    /\ clock' = clock + 1
    /\ imageView' = [imageView EXCEPT !.status = "PROCESSING"]
    /\ pending' = pending \cup
         { ServiceCall("analyzeReceiptImage", clock + 1, imageView.selectedFile, << >>) }
    /\ UNCHANGED << app, closure, auditView, uiFrame >>

\* setAnalysisText(text); setStatus(ProcessingStatus.SUCCESS)
AnalyzeResolve ==
    /\ \E c \in CallsOf("analyzeReceiptImage") :
         /\ imageView' = [imageView EXCEPT !.analysisText = TextOf(c.arg),
                                           !.status = "SUCCESS"]
         /\ pending' = pending \ {c}
    /\ UNCHANGED << app, closure, auditView, clock, uiFrame >>

\* catch: setStatus(ProcessingStatus.ERROR)
AnalyzeReject ==
    /\ \E c \in CallsOf("analyzeReceiptImage") :
         /\ imageView' = [imageView EXCEPT !.status = "ERROR"]
         /\ pending' = pending \ {c}
    /\ UNCHANGED << app, closure, auditView, clock, uiFrame >>

UINext ==
    \/ AuthChange
    \/ Render
    \/ RequireLogin
    \/ CloseModal
    \/ Navigate
    \/ TypeChat
    \/ HandleChatSubmit
    \/ ChatResolve
    \/ ChatReject
    \/ TypeAudit
    \/ HandleAudit
    \/ AuditResolve
    \/ AuditReject
    \/ HandleFileChange
    \/ clearFile
    \/ HandleAnalyze
    \/ AnalyzeResolve
    \/ AnalyzeReject

SpecUI == UIInit /\ [][UINext]_vars

\* the promise handleChatSubmit awaits settles
SpecUIFair == SpecUI /\ WF_vars(ChatResolve \/ ChatReject)

TypeOK ==
    /\ pc \in {"Idle", "Building", "Sent", "Streaming", "AwaitingResponse", "Completed", "Failed"}
    /\ requests \in 0..2
    /\ result.kind \in {"none", "value", "error"}

\* ------------------------------------------------------------- properties
\* the provider the call contacts (or would contact)
Contacted == IF UsesOpenAI(op, provider) THEN provider ELSE "gemini"

\* the non-empty delta texts carried by a sequence of frames, in order
DeltasOf(fs) ==
    LET g == SelectSeq(fs, LAMBDA k : FrameText(k) # << >>)
    IN  [i \in 1..Len(g) |-> FrameText(g[i])]

\* d1, d1d2, ..., d1..dn
Prefixes(ds) == [i \in 1..Len(ds) |-> Concat(SubSeq(ds, 1, i))]

KindsIn(fs, K) == \A i \in 1..Len(fs) : fs[i] \in K

ProviderFailures == {"MissingKey", "Network", "Http", "Parse", "Empty", "Stream"}

\* C1: when the credential of the provider the call contacts is empty, the
\* call ends with a missing-credential error and has issued no request.
C1_MissingCredentialFailsFast ==
    (pc \in Terminal /\ fileOk /\ env[Contacted] = "")
        => (result.kind = "error" /\ result.err = "MissingKey" /\ requests = 0)

\* C2: a failed provider call (missing credential, network failure, non-2xx
\* status, unparseable response) reaches the caller as an error, never as a
\* returned value, and is not retried.
C2_FailuresPropagate ==
    (pc \in Terminal /\ failure \in ProviderFailures)
        => (result.kind = "error" /\ result.err = failure /\ requests <= 1)

\* C3: a call issues at most one request, exactly one once it is past
\* Building, and none is added after a failure.
C3_AtMostOneRequest ==
    /\ requests <= 1
    /\ pc \in {"Sent", "Streaming", "AwaitingResponse"} => requests = 1
    /\ pc \in Terminal => requests = (IF failedAt = "Building" THEN 0 ELSE 1)
    /\ requests = 1 => target = Contacted

C3_Witness == pc = "Failed" /\ failure = "Network" /\ requests = 1 /\ target = "qwen"

\* C4: every sink invocation carries the full accumulated text: the i-th
\* argument is the concatenation of the first i deltas appended, so each
\* argument is a prefix of the next and the last one is the accumulator.
C4_SinkGetsAccumulatedText ==
    /\ Len(sinkLog) = Len(decoded)
    /\ \A i \in 1..Len(sinkLog) : sinkLog[i] = Concat(SubSeq(decoded, 1, i))
    /\ \A i \in 1..(Len(sinkLog) - 1) : IsPrefix(sinkLog[i], sinkLog[i + 1])
    /\ sinkLog # << >> => sinkLog[Len(sinkLog)] = acc

C4_Witness ==
    /\ decoder = "brace"
    /\ frames = << "a", "b" >>
    /\ reads = 1
    /\ sinkLog = << << "a" >>, << "a", "b" >> >>

\* C5: an event stream delivered in whole-line chunks whose data lines carry
\* d1..dn, with blank lines and the terminator line: the sink gets d1, d1d2,
\* ..., d1..dn in that order and the call returns d1..dn.
C5_SSEDecodesInOrder ==
    (decoder = "sse" /\ wholeLines /\ failure = "none"
        /\ KindsIn(frames, {"a", "b", "blank", "done"}))
        => /\ IsPrefix(sinkLog, Prefixes(DeltasOf(frames)))
           /\ pc = "Completed" =>
                /\ sinkLog = Prefixes(DeltasOf(frames))
                /\ result = Value(Concat(DeltasOf(frames)))

C5_Witness ==
    /\ decoder = "sse"
    /\ pc = "Completed"
    /\ wholeLines
    /\ reads = 2
    /\ frames = << "a", "b", "done" >>
    /\ sinkLog = << << "a" >>, << "a", "b" >> >>
    /\ result = Value(<< "a", "b" >>)

\* C6: a data line with an unparseable payload never ends the call with a
\* parse error and adds nothing to the accumulator; the valid data lines of
\* the same stream are decoded and reported, and the call completes.
C6_MalformedLineSkipped ==
    decoder = "sse" =>
        /\ failure # "Parse"
        /\ (wholeLines /\ failure = "none" /\ pc = "Completed"
                /\ \E i \in 1..Len(frames) : frames[i] = "bad")
            => /\ sinkLog = Prefixes(DeltasOf(frames))
               /\ result = Value(Concat(DeltasOf(frames)))

C6_Witness ==
    /\ decoder = "sse"
    /\ pc = "Completed"
    /\ wholeLines
    /\ frames = << "bad", "a", "done" >>
    /\ sinkLog = << << "a" >> >>
    /\ result = Value(<< "a" >>)

\* C7: a buffer holding n complete objects, fed to the brace decoder at
\* once, gives one sink invocation per object text, cumulative and in order.
C7_BraceDecodesBuffer ==
    (decoder = "brace" /\ reads = 1 /\ wire = << >>
        /\ KindsIn(frames, {"a", "b", "empty", "bad"}))
        => /\ sinkLog = Prefixes(DeltasOf(frames))
           /\ acc = Concat(DeltasOf(frames))

C7_Witness ==
    /\ decoder = "brace"
    /\ pc = "Completed"
    /\ reads = 1
    /\ frames = << "b", "a" >>
    /\ sinkLog = << << "b" >>, << "b", "a" >> >>

\* C8: whatever the split of the JSON-array stream into chunks, each
\* complete object adds its text to the accumulator exactly once.
C8_EachObjectOnce ==
    (decoder = "brace" /\ KindsIn(frames, {"a", "b", "empty", "bad"}) /\ wire = << >>)
        => /\ acc = Concat(DeltasOf(frames))
           /\ sinkLog = Prefixes(DeltasOf(frames))

\* C9: at end of stream a streaming call returns the accumulated text, or a
\* single space when nothing was decoded, on every decoder.
C9_EndOfStreamReturn ==
    (decoder # "none" /\ pc = "Completed" /\ failure = "none")
        => result = Value(IF acc = << >> THEN << " " >> ELSE acc)

\* C10: a transport failure in the middle of a stream reaches the caller as
\* an error; the sink invocations made before it stand and none follows.
C10_MidStreamFailure ==
    failure = "Stream"
        => /\ result.kind = "error"
           /\ sinkLog = sinkAtFail

\* C11: after a non-2xx status nothing of the body is decoded, the sink is
\* never invoked, and the call ends with an error whose message is built
\* from the status and the raw body, never with a returned text.
C11_HttpErrorFails ==
    failure = "Http"
        => /\ decoded = << >>
           /\ sinkLog = << >>
           /\ result = ErrorWith("Http", HttpMessage(op, provider, status, body.content))

Mentions(t, w) == \E i \in 1..Len(t) : t[i] = w

C12_Kind(st, detail) ==
    IF st \in {400, 403} /\ (Mentions(detail, "leaked") \/ Mentions(detail, "API key not valid"))
    THEN "CredentialRevoked"
    ELSE IF st = 404 THEN "ModelUnreachable"
    ELSE "ProviderError"

\* C12: the error of a failed status is classified by (status, detail):
\* CredentialRevoked for 400/403 with a revoked-key detail, ModelUnreachable
\* for 404, ProviderError otherwise, the last with the message
\* "<display name> API Error: <detail>".
C12_ErrorClassification ==
    (pc = "Failed" /\ failure = "Http")
        => /\ ErrorName(failure) = C12_Kind(status, body.content)
           /\ (C12_Kind(status, body.content) = "ProviderError" /\ UsesOpenAI(op, provider))
                => result.text = << getProviderConfig(provider).providerName, " API Error: " >>
                                    \o body.content


\* the text the provider answered with, << >> when there is none
ResponseText == IF status = 200 /\ body.json /\ body.shape THEN body.content ELSE << >>

Fenced(d) == { << Fence, NL >> \o d \o << NL, Ticks >>, << Fence >> \o d \o << Ticks >> }

\* C13: analyzeFinancialData, whatever the provider: a JSON document in a
\* json code fence comes back as the parse of the inner document, a bare
\* JSON document as its parse.
C13_FenceStripped ==
    (op = "analyzeFinancialData" /\ status = 200 /\ pc \in Terminal
        /\ (ResponseText \in Fenced(Doc) \/ Trim(ResponseText) = Doc))
        => result = Value(Doc)

C15_DocumentRouting ==
    (op = "analyzeReceiptImage" /\ requests = 1)
        => /\ target = (IF provider \in {"gpt", "qwen"} THEN provider ELSE "gemini")
           /\ (pc = "Completed" /\ ResponseText # << >> /\ provider = "deepseek")
                => result = Value(RedirectNote \o ResponseText)
           /\ (pc = "Completed" /\ ResponseText # << >> /\ provider = "gemini")
                => result = Value(ResponseText)

\* C16 as stated: a document analysis against deepseek, which has no vision
\* model, ends with a configuration error and no request.
C16_CapabilityGuard ==
    (op = "analyzeReceiptImage" /\ provider = "deepseek" /\ fileOk /\ pc \in Terminal)
        => (result.kind = "error" /\ result.err = "Config" /\ requests = 0)

\* C16 as the code has it: a document analysis against deepseek is not
\* refused; unless the key or the file is missing it issues its one request
\* to Gemini, and no configuration error is ever raised.
C16_RedirectedNotRefused ==
    /\ failure # "Config"
    /\ (op = "analyzeReceiptImage" /\ provider = "deepseek" /\ pc # "Building")
        => \/ requests = 1 /\ target = "gemini" /\ model = GeminiModel
           \/ requests = 0 /\ failedAt = "Building" /\ failure \in {"MissingKey", "FileRead"}

C16_Witness ==
    /\ op = "analyzeReceiptImage"
    /\ provider = "deepseek"
    /\ fileOk
    /\ pc = "Completed"
    /\ requests = 1
    /\ target = "gemini"
    /\ result.kind = "value"


\* C17: sendChatMessage with a sink sends a streaming request and returns
\* the accumulated text once the stream has ended; without a sink it sends
\* one non-streaming request, invokes no sink and returns the response text.
C17_ChatModes ==
    (op = "sendChatMessage" /\ requests = 1)
        => /\ sink => streaming
           /\ ~sink => (~streaming /\ sinkLog = << >>)
           /\ (sink /\ pc = "Completed" /\ failure = "none" /\ acc # << >>)
                => (wire = << >> /\ result = Value(acc))
           /\ (~sink /\ pc = "Completed" /\ failure = "none" /\ ResponseText # << >>)
                => result = Value(ResponseText)

LifecycleSteps ==
    { << "Idle", "Building" >>,
      << "Building", "Sent" >>, << "Building", "Failed" >>,
      << "Sent", "Streaming" >>, << "Sent", "AwaitingResponse" >>, << "Sent", "Failed" >>,
      << "Streaming", "Completed" >>, << "Streaming", "Failed" >>,
      << "AwaitingResponse", "Completed" >>, << "AwaitingResponse", "Failed" >>,
      << "Completed", "Idle" >>, << "Failed", "Idle" >> }

\* C18: a call moves Idle -> Building -> Sent -> (Streaming or
\* AwaitingResponse) -> Completed, or to Failed from Building, Sent,
\* Streaming or AwaitingResponse; a finished call only gives way to the next
\* one; Streaming is entered only with a sink.
C18_Lifecycle ==
    /\ [][pc' # pc => << pc, pc' >> \in LifecycleSteps]_vars
    /\ [](pc = "Streaming" => sink)


\* provider identifiers, one of them unknown to the registry
Ids == Providers \cup {"other"}

\* C19: getProviderConfig returns a configuration for deepseek, gpt and
\* qwen and none for gemini or an unknown identifier, and what it returns
\* for an identifier (endpoint, model, credential, display name) is the
\* same before and after every step of every operation.
C19_ResolveStable ==
    /\ [](\A p \in Ids : (getProviderConfig(p) # Null) <=> (p \in {"deepseek", "gpt", "qwen"}))
    /\ [][\A p \in Ids : getProviderConfig(p)' = getProviderConfig(p)]_vars

C19_Witness ==
    /\ vlSent
    /\ op = "analyzeFinancialData"
    /\ provider = "qwen"
    /\ pc = "Sent"
    /\ config = getProviderConfig("qwen")
    /\ config.model = "qwen-max"
    /\ getProviderConfig("gemini") = Null
    /\ getProviderConfig("other") = Null

\* C20: whatever calls came before, analyzeReceiptImage with qwen included,
\* a chat or a structured analysis with an OpenAI-compatible provider sends
\* the model of the registry (qwen-max for qwen), and the configuration the
\* call holds has the credential, endpoint and display name of the registry.
C20_ConfigNotMutated ==
    /\ (op \in {"sendChatMessage", "analyzeFinancialData"} /\ requests = 1
            /\ provider \in {"deepseek", "gpt", "qwen"})
        => /\ model = getProviderConfig(provider).model
           /\ provider = "qwen" => model = "qwen-max"
    /\ (config # Null /\ pc # "Idle")
        => /\ config.apiKey = env[provider]
           /\ config.baseUrl = getProviderConfig(provider).baseUrl
           /\ config.providerName = getProviderConfig(provider).providerName
    /\ (op = "analyzeReceiptImage" /\ provider = "qwen" /\ requests = 1)
        => model = "qwen-vl-max"

C20_Witness ==
    /\ vlSent
    /\ op = "sendChatMessage"
    /\ provider = "qwen"
    /\ pc = "Completed"
    /\ requests = 1
    /\ model = "qwen-max"

EmptySt == [acc |-> << >>, sink |-> << >>, decoded |-> << >>, thrown |-> FALSE]

\* C26: however the transport cuts an event stream into chunks, a cut
\* inside a data line included, the sink values and the returned text are
\* those of the same stream delivered in one chunk.
C26_ChunkingIndependent ==
    (decoder = "sse" /\ wire = << >> /\ failure = "none")
        => LET one == SSEProcessChunk(EmptySt, SSEWire(frames))
           IN  /\ sinkLog = one.sink
               /\ pc = "Completed" => result = Value(one.acc)

\* C27: the depth counter of the brace scan never goes below zero, and an
\* object whose text holds a brace character is one complete object whose
\* text is appended once (buffer delivered in one chunk).
C27_BracesInStrings ==
    decoder = "brace"
        => /\ BraceMinDepth(buffer, 1, 0) >= 0
           /\ (reads = 1 /\ wire = << >>)
                => /\ acc = Concat(DeltasOf(frames))
                   /\ sinkLog = Prefixes(DeltasOf(frames))

\* C28: a streaming call that completes with at least one sink invocation
\* returns the argument of the last one; no sink invocation follows the
\* return; only non-empty deltas reach the sink, so each sink argument is
\* longer than the one before.
C28_ReturnIsLastSink ==
    /\ [](decoder # "none"
            => /\ Len(sinkLog) = Len(decoded)
               /\ \A i \in 1..Len(sinkLog) :
                    /\ decoded[i] # << >>
                    /\ Len(sinkLog[i]) > (IF i = 1 THEN 0 ELSE Len(sinkLog[i - 1]))
               /\ (decoder = "sdk" /\ wire = << >>) => Len(sinkLog) = Len(DeltasOf(frames)))
    /\ []((decoder # "none" /\ pc = "Completed" /\ failure = "none" /\ sinkLog # << >>)
            => result = Value(sinkLog[Len(sinkLog)]))
    /\ [][(pc \in Terminal /\ pc' # "Idle") => sinkLog' = sinkLog]_vars

C28_Witness ==
    /\ decoder = "sdk"
    /\ pc = "Completed"
    /\ failure = "none"
    /\ frames = << "empty", "a" >>
    /\ sinkLog = << << "a" >> >>
    /\ result = Value(<< "a" >>)


\* a call run on its own: the locals after the chunks cs, from fresh locals
RECURSIVE RunAlone(_, _, _)
RunAlone(d, loc, cs) ==
    IF cs = << >> THEN loc ELSE RunAlone(d, StepDecoder(d, loc, Head(cs)), Tail(cs))

\* C21: with the reads of two calls interleaved in any order, the sink
\* values, accumulator and buffer of each call are those of the same call
\* run alone on the chunks it has received, and so is the text it returns.
C21_CallsIndependent ==
    \A c \in DOMAIN calls :
        LET alone == RunAlone(calls[c].decoder, FreshLocals, calls[c].delivered)
        IN  /\ calls[c].loc = alone
            /\ calls[c].done => calls[c].text = StreamReturn(calls[c].decoder, alone.acc)

C21_Witness ==
    /\ calls # NoCalls
    /\ calls[1].done /\ calls[2].done
    /\ calls[1].decoder = "sse" /\ calls[2].decoder = "brace"
    /\ calls[1].text = << "a", "b" >>
    /\ calls[2].text = << "b" >>
    /\ calls[2].loc.sink = << << "b" >> >>


\* C22: the messages sent to an OpenAI-compatible provider are the system
\* instruction, then every history turn in its order with role model as
\* assistant and any other role as user, then the new message as user: one
\* entry per turn, plus the new message, plus the system instruction.
C22_ChatMessages ==
    (chat.phase \in {"sent", "returned", "failed"}
        /\ UsesOpenAI("sendChatMessage", chat.provider))
        => LET ms == chat.payload.messages
               n  == Len(chat.given)
           IN  /\ Len(ms) = n + 2
               /\ ms[1] = [role |-> "system", content |-> SystemInstruction(chat.language)]
               /\ \A i \in 1..n :
                    /\ ms[i + 1].content = chat.given[i].text
                    /\ ms[i + 1].role = (IF chat.given[i].role = "model" THEN "assistant"
                                         ELSE "user")
               /\ ms[n + 2] = [role |-> "user", content |-> chat.newMessage]

C22_Witness ==
    /\ chat.phase = "sent"
    /\ chat.provider = "deepseek"
    /\ chat.given = << [role |-> "model", text |-> << "x" >>], [role |-> "user", text |-> << "y" >>] >>
    /\ chat.newMessage = << "n" >>
    /\ Len(chat.payload.messages) = 4
    /\ chat.payload.messages[2].role = "assistant"

\* C24: from the call to its end, on success and on failure and for every
\* provider, the history array the caller passed holds the turns it held
\* when it was passed; the new message goes into the call's own array.
C24_HistoryUntouched ==
    chat.phase # "idle"
        => /\ heap["caller"] = chat.given
           /\ chat.phase # "called"
                => \/ chat.payload.message = chat.newMessage
                   \/ heap["copy"][Len(heap["copy"])].content = chat.newMessage

C24_Witness ==
    /\ chat.phase = "failed"
    /\ chat.provider = "gemini"
    /\ variant = "fetch"
    /\ Len(chat.given) = 2
    /\ heap["caller"] = chat.given
    /\ Len(heap["copy"]) = 3


C25_LoginRequired ==
    [][ /\ (pending' \ pending # {}) => closure.session
        /\ ((HandleChatSubmit \/ HandleAudit \/ HandleAnalyze) /\ ~closure.session)
              => (app'.isLoginModalOpen /\ pending' = pending) ]_vars

\* C30: the analysis shown belongs to the file selected, and the status is
\* SUCCESS only with a file selected: the result of an analysis started for
\* a file that was cleared or replaced since is not shown.
C30_ResultOfSelectedFile ==
    /\ imageView.analysisText # ""
          => (imageView.selectedFile # "null"
              /\ imageView.analysisText = TextOf(imageView.selectedFile))
    /\ imageView.status = "SUCCESS" => imageView.selectedFile # "null"

Occurrences(seq, m) == Cardinality({ i \in DOMAIN seq : seq[i] = m })

C29_Safe ==
    /\ Cardinality(CallsOf("sendChatMessage")) <= 1
    /\ app.isChatLoading <=> CallsOf("sendChatMessage") # {}
    /\ \A c \in CallsOf("sendChatMessage") :
         /\ Occurrences(c.history, c.arg) = 0
         /\ Occurrences(app.chatHistory, c.arg) = 1
         /\ Occurrences(app.chatHistory, [role |-> "model", of |-> c.id]) = 0
    /\ \A i \in DOMAIN app.chatHistory :
         /\ Occurrences(app.chatHistory, app.chatHistory[i]) = 1
         /\ (app.chatHistory[i].role = "model" /\ app.chatHistory[i].of > 0)
               => \E j \in 1..(i - 1) :
                     app.chatHistory[j] = [role |-> "user", of |-> app.chatHistory[i].of]

\* C29: at most one sendChatMessage call is pending whatever the order of
\* submits and renders; isChatLoading is true exactly while one is pending,
\* goes back to false in the step that settles it, resolved or rejected, and
\* so does not stay true; the call is given a history without the submitted
\* message, which is in chatHistory once and ahead of its reply.
C29_OneChatCall ==
    /\ []C29_Safe
    /\ [][ (CallsOf("sendChatMessage")' # CallsOf("sendChatMessage")
              /\ CallsOf("sendChatMessage")' = {}) => ~app'.isChatLoading ]_vars
    /\ (app.isChatLoading ~> ~app.isChatLoading)

\* a second message awaits its reply after the first one was answered
C29_Witness ==
    /\ app.isChatLoading
    /\ Len(app.chatHistory) = 4
    /\ app.chatHistory[3].role = "model"
    /\ Cardinality(CallsOf("sendChatMessage")) = 1


====
